---- MODULE Spec2Model ----
(***************************************************************************)
(* ExaTN tensor runtime: the directed graph of tensor operations           *)
(* (DirectedBoostGraph), its execution-state tracker (TensorExecState) and *)
(* the coarse graph mutex, as a state machine over client threads.         *)
(*                                                                         *)
(* Every public method of DirectedBoostGraph is a sequence of steps of the *)
(* calling thread: the step named after the method performs its lock(),    *)
(* the following steps its body and its unlock().  A nested call of a      *)
(* public method (addOperation -> addDependency, getNodeDegree ->          *)
(* getNeighborList, printIt -> getNeighborList) performs the callee's own  *)
(* lock() and unlock().                                                    *)
(***************************************************************************)
EXTENDS Integers, Sequences, FiniteSets, TLC

(***************************************************************************)
(* Bounds of the model and the inputs the clients draw from.               *)
(***************************************************************************)
MaxNodes == 4        \* vertices a graph may hold under SpecOps
MaxVertices == 2     \* vertices a graph may hold under the other specifications
MaxEdges == 2        \* edges beyond which clients stop calling addDependency
MaxLockCount == 1    \* acquisitions held beyond which allocations stop failing

Threads == {1, 2}
NoThread == 0
Tensors == {"X", "Y", "Z", "W"}

\* Operations: operand 0 (index 1 here) is the output, the rest are inputs.
Ops == {<<o>> : o \in {"X", "Y", "Z"}}
         \cup {<<o, i>> : o \in {"X", "Y", "Z"}, i \in {"X", "Y"}}
OpsSmall == {<<"X">>, <<"Y", "X">>, <<"X", "X">>}

VARIABLES dag_, exec_state_, mtx, pc, loc, ret, calls, prev

\* The contraction-sequence optimizer: its input (network), its beam width,
\* the locals of determineContractionSequence and its results.
VARIABLES network, num_walkers_, intermediate_num_generator, ppc, pass,
          intermediate_id, inputPaths, cands, priq, contr_seq, flops, runs

graph_vars == <<dag_, exec_state_, mtx, pc, loc, ret, calls, prev>>

planner_vars ==
  <<network, num_walkers_, intermediate_num_generator, ppc, pass,
    intermediate_id, inputPaths, cands, priq, contr_seq, flops, runs>>

\* The framework: the globals of namespace exatn with the state of the MPI
\* library and the NumServer objects alive (exatn), and the caller of
\* initialize / finalize / isInitialized (main).
VARIABLES exatn, main

runtime_vars == <<exatn, main>>

vars == <<graph_vars, planner_vars, runtime_vars>>

(***************************************************************************)
(* boost::adjacency_list<vecS, vecS, directedS, DirectedBoostVertex,       *)
(* property<edge_weight_t, double>>: a vector of vertices, each with its   *)
(* bundled property and the vector of its out-edges (targets, in insertion *)
(* order, parallel edges kept).  Vertex id v is element v + 1.             *)
(***************************************************************************)
nullptr == [op |-> <<>>, id |-> -1]

DirectedBoostVertex == [properties |-> nullptr, m_out_edges |-> <<>>]

num_vertices(g) == Len(g)

RECURSIVE num_edges(_)
num_edges(g) ==
  IF g = <<>> THEN 0 ELSE Len(Head(g).m_out_edges) + num_edges(Tail(g))

add_vertex(g) == Append(g, DirectedBoostVertex)

\* vecS add_edge: a vertex descriptor beyond the vertex vector resizes it.
resize(g, n) ==
  IF n <= Len(g) THEN g
  ELSE g \o [k \in 1..(n - Len(g)) |-> DirectedBoostVertex]

max(a, b) == IF a >= b THEN a ELSE b

\* Mutant: inserting an edge that is already there removes it.
add_edge_toggling(u, v, g) ==
  LET x == max(u, v)
      g1 == IF x >= num_vertices(g) THEN resize(g, x + 1) ELSE g
  IN [g1 EXCEPT ![u + 1].m_out_edges =
        IF \E k \in 1..Len(@) : @[k] = v
          THEN SelectSeq(@, LAMBDA w : w # v)
          ELSE Append(@, v)]

\* Mutant: the new edge replaces the out-edges the vertex had.
add_edge_replacing(u, v, g) ==
  LET x == max(u, v)
      g1 == IF x >= num_vertices(g) THEN resize(g, x + 1) ELSE g
  IN [g1 EXCEPT ![u + 1].m_out_edges = <<v>>]

\* Mutant: the edge is stored at the dependee, pointing to the dependent.
add_edge_reversed(u, v, g) ==
  LET x == max(u, v)
      g1 == IF x >= num_vertices(g) THEN resize(g, x + 1) ELSE g
  IN [g1 EXCEPT ![v + 1].m_out_edges = Append(@, u)]

add_edge(u, v, g) ==
  LET x == max(u, v)
      g1 == IF x >= num_vertices(g) THEN resize(g, x + 1) ELSE g
  IN [g1 EXCEPT ![u + 1].m_out_edges = Append(@, v)]

adjacent_vertices(u, g) == g[u + 1].m_out_edges

edge(u, v, g) ==
  \E k \in 1..Len(g[u + 1].m_out_edges) : g[u + 1].m_out_edges[k] = v

(***************************************************************************)
(* TensorExecState: per tensor, the nodes of its current epoch.  A write   *)
(* epoch holds the single writer; a read epoch holds the readers since the *)
(* last write.                                                             *)
(***************************************************************************)
NoWriter == -1

NoTensorInfo == [writer |-> NoWriter, readers |-> <<>>]

getTensorEpochNodes(es, T) ==
  IF es[T].writer # NoWriter
    THEN [null |-> FALSE, nodes |-> <<es[T].writer>>, epoch |-> -1]
  ELSE IF es[T].readers # <<>>
    THEN [null |-> FALSE, nodes |-> es[T].readers, epoch |-> Len(es[T].readers)]
  ELSE [null |-> TRUE, nodes |-> <<>>, epoch |-> 0]

registerTensorWrite(es, T, v) ==
  [es EXCEPT ![T] = [writer |-> v, readers |-> <<>>]]

registerTensorRead(es, T, v) ==
  [es EXCEPT ![T] = [writer |-> NoWriter,
                     readers |-> IF \E k \in 1..Len(@.readers) : @.readers[k] = v
                                   THEN @.readers ELSE Append(@.readers, v)]]

(***************************************************************************)
(* The graph mutex behind lock() / unlock(): the owner and its count.      *)
(***************************************************************************)
CanLock(t) == mtx.owner \in {NoThread, t}

lock(t) == [owner |-> t, count |-> mtx.count + 1]

unlock(t) ==
  IF mtx.count = 1 THEN [owner |-> NoThread, count |-> 0]
  ELSE [mtx EXCEPT !.count = @ - 1]

(***************************************************************************)
(* A thread's frame: the arguments and locals of the call it is in.        *)
(***************************************************************************)
NoFrame ==
  [op |-> <<>>, vid |-> -1, i |-> 0, nodes |-> <<>>,
   dependent |-> -1, dependee |-> -1, rpc |-> "idle",
   vertex_id |-> -1, vertex_id2 |-> -1, l |-> <<>>, out |-> <<>>,
   num_nodes |-> 0, ub |-> FALSE]

\* ret holds what the last call returned, until a thread makes the next call.
\* arg is the vertex id the call was given (-1 when it takes none).
Returns(t, name, val) ==
  [thread |-> t, op |-> name, val |-> val, arg |-> loc[t].vertex_id]

NoReturn == [thread |-> NoThread, op |-> "none", val |-> 0, arg |-> -1]

\* prev: the stream and the graph a recording clear() has dropped.
NoPrev == [calls |-> <<>>, dag |-> <<>>, recorded |-> FALSE]

\* The optimizer before any call of determineContractionSequence.
NoNetwork == [n |-> 0, cost |-> <<>>]


PlannerIdle ==
  /\ network = NoNetwork
  /\ num_walkers_ = 1
  /\ intermediate_num_generator = [kind |-> "counter", calls |-> 0]
  /\ ppc = "idle"
  /\ pass = 0
  /\ intermediate_id = 0
  /\ inputPaths = <<>>
  /\ cands = <<>>
  /\ priq = <<>>
  /\ contr_seq = <<>>
  /\ flops = 0
  /\ runs = <<>>

GraphFresh ==
  /\ dag_ = <<>>
  /\ exec_state_ = [T \in Tensors |-> NoTensorInfo]
  /\ mtx = [owner |-> NoThread, count |-> 0]
  /\ pc = [t \in Threads |-> "idle"]
  /\ loc = [t \in Threads |-> NoFrame]
  /\ ret = NoReturn
  /\ calls = <<>>
  /\ prev = NoPrev

\* The framework before any initialize(): no numerical server.
nullServer == 0

FrameworkDown(build) ==
  /\ exatn = [MPI_ENABLED |-> build,
              exatnFrameworkInitialized |-> FALSE,
              exatnInitializedMPI |-> FALSE,
              numericalServer |-> nullServer,
              serviceRegistry |-> 0,
              mpi |-> "uninitialized",
              servers |-> {}]
  /\ main = [pc |-> "idle", calls |-> <<>>, ret |-> FALSE]

Init == GraphFresh /\ PlannerIdle /\ FrameworkDown(FALSE)

(***************************************************************************)
(* addOperation                                                            *)
(***************************************************************************)
\* The nodes the new vertex must depend on for its output operand.
\* Mutant: a new writer depends on a prior writer only, not on prior readers.
OutputHazardNodes_WAWonly(r) == IF r.null \/ r.epoch >= 0 THEN <<>> ELSE r.nodes

OutputHazardNodes(r) == IF r.null THEN <<>> ELSE r.nodes

\* The nodes the new vertex must depend on for an input operand.
InputHazardNodes(r) == IF r.epoch < 0 THEN r.nodes ELSE <<>>

addOperation(t, op) ==
  /\ pc[t] = "idle"
  /\ CanLock(t)
  /\ mtx' = lock(t)
  /\ pc' = [pc EXCEPT ![t] = "ao_add_vertex"]
  /\ loc' = [loc EXCEPT ![t] = [NoFrame EXCEPT !.op = op]]
  /\ calls' = Append(calls, op)
  /\ ret' = NoReturn
  /\ UNCHANGED <<dag_, exec_state_, prev, planner_vars, runtime_vars>>

\* Mutant: the id stored in the node record counts from one.
ao_add_vertex_idfromone(t) ==
  /\ pc[t] = "ao_add_vertex"
  /\ LET vid == num_vertices(dag_)
         r == getTensorEpochNodes(exec_state_, loc[t].op[1])
     IN /\ dag_' = [add_vertex(dag_) EXCEPT
                      ![vid + 1].properties = [op |-> loc[t].op, id |-> vid + 1]]
        /\ loc' = [loc EXCEPT ![t].vid = vid, ![t].nodes = OutputHazardNodes(r)]
  /\ pc' = [pc EXCEPT ![t] = "ao_out_deps"]
  /\ UNCHANGED <<exec_state_, mtx, ret, calls, prev, planner_vars, runtime_vars>>

ao_add_vertex(t) ==
  /\ pc[t] = "ao_add_vertex"
  /\ LET vid == num_vertices(dag_)
         r == getTensorEpochNodes(exec_state_, loc[t].op[1])
     IN /\ dag_' = [add_vertex(dag_) EXCEPT
                      ![vid + 1].properties = [op |-> loc[t].op, id |-> vid]]
        /\ loc' = [loc EXCEPT ![t].vid = vid, ![t].nodes = OutputHazardNodes(r)]
  /\ pc' = [pc EXCEPT ![t] = "ao_out_deps"]
  /\ UNCHANGED <<exec_state_, mtx, ret, calls, prev, planner_vars, runtime_vars>>

\* The call addDependency(vid, node_id) of either loop: the callee's lock().
ao_dependency(t) ==
  /\ pc[t] \in {"ao_out_deps", "ao_in_deps"}
  /\ loc[t].nodes # <<>>
  /\ CanLock(t)
  /\ mtx' = lock(t)
  /\ loc' = [loc EXCEPT ![t].dependent = loc[t].vid,
                        ![t].dependee = Head(loc[t].nodes),
                        ![t].nodes = Tail(loc[t].nodes),
                        ![t].rpc = pc[t]]
  /\ pc' = [pc EXCEPT ![t] = "ad_add_edge"]
  /\ UNCHANGED <<dag_, exec_state_, ret, calls, prev, planner_vars, runtime_vars>>

\* Mutant: the write is registered before the edges to the prior epoch
\* nodes are added.
ao_register_write_early(t) ==
  /\ pc[t] = "ao_out_deps"
  /\ exec_state_' = registerTensorWrite(exec_state_, loc[t].op[1], loc[t].vid)
  /\ loc' = [loc EXCEPT ![t].i = 2, ![t].nodes = <<>>]
  /\ pc' = [pc EXCEPT ![t] = "ao_input"]
  /\ UNCHANGED <<dag_, mtx, ret, calls, prev, planner_vars, runtime_vars>>

ao_register_write(t) ==
  /\ pc[t] = "ao_out_deps"
  /\ loc[t].nodes = <<>>
  /\ exec_state_' = registerTensorWrite(exec_state_, loc[t].op[1], loc[t].vid)
  /\ loc' = [loc EXCEPT ![t].i = 2]
  /\ pc' = [pc EXCEPT ![t] = "ao_input"]
  /\ UNCHANGED <<dag_, mtx, ret, calls, prev, planner_vars, runtime_vars>>

ao_input(t) ==
  /\ pc[t] = "ao_input"
  /\ loc[t].i <= Len(loc[t].op)
  /\ LET r == getTensorEpochNodes(exec_state_, loc[t].op[loc[t].i])
     IN loc' = [loc EXCEPT ![t].nodes = InputHazardNodes(r)]
  /\ pc' = [pc EXCEPT ![t] = "ao_in_deps"]
  /\ UNCHANGED <<dag_, exec_state_, mtx, ret, calls, prev, planner_vars, runtime_vars>>

ao_register_read(t) ==
  /\ pc[t] = "ao_in_deps"
  /\ loc[t].nodes = <<>>
  /\ exec_state_' = registerTensorRead(exec_state_, loc[t].op[loc[t].i], loc[t].vid)
  /\ loc' = [loc EXCEPT ![t].i = @ + 1]
  /\ pc' = [pc EXCEPT ![t] = "ao_input"]
  /\ UNCHANGED <<dag_, mtx, ret, calls, prev, planner_vars, runtime_vars>>

ao_return(t) ==
  /\ pc[t] = "ao_input"
  /\ loc[t].i > Len(loc[t].op)
  /\ mtx' = unlock(t)
  /\ ret' = Returns(t, "addOperation", loc[t].vid)
  /\ pc' = [pc EXCEPT ![t] = "idle"]
  /\ loc' = [loc EXCEPT ![t] = NoFrame]
  /\ UNCHANGED <<dag_, exec_state_, calls, prev, planner_vars, runtime_vars>>

(***************************************************************************)
(* addDependency                                                           *)
(***************************************************************************)
addDependency(t, dependent, dependee) ==
  /\ pc[t] = "idle"
  /\ CanLock(t)
  /\ mtx' = lock(t)
  /\ loc' = [loc EXCEPT ![t] = [NoFrame EXCEPT !.dependent = dependent,
                                               !.dependee = dependee]]
  /\ pc' = [pc EXCEPT ![t] = "ad_add_edge"]
  /\ ret' = NoReturn
  /\ UNCHANGED <<dag_, exec_state_, calls, prev, planner_vars, runtime_vars>>

\* Mutant: addDependency returns without its unlock().
ad_add_edge_nounlock(t) ==
  /\ pc[t] = "ad_add_edge"
  /\ dag_' = add_edge(loc[t].dependent, loc[t].dependee, dag_)
  /\ mtx' = mtx
  /\ pc' = [pc EXCEPT ![t] = loc[t].rpc]
  /\ IF loc[t].rpc = "idle"
       THEN /\ loc' = [loc EXCEPT ![t] = NoFrame]
            /\ ret' = Returns(t, "addDependency", "void")
       ELSE /\ loc' = [loc EXCEPT ![t].dependent = -1, ![t].dependee = -1,
                                  ![t].rpc = "idle"]
            /\ ret' = ret
  /\ UNCHANGED <<exec_state_, calls, prev, planner_vars, runtime_vars>>

ad_add_edge(t) ==
  /\ pc[t] = "ad_add_edge"
  /\ dag_' = add_edge(loc[t].dependent, loc[t].dependee, dag_)
  /\ mtx' = unlock(t)
  /\ pc' = [pc EXCEPT ![t] = loc[t].rpc]
  /\ IF loc[t].rpc = "idle"
       THEN /\ loc' = [loc EXCEPT ![t] = NoFrame]
            /\ ret' = Returns(t, "addDependency", "void")
       ELSE /\ loc' = [loc EXCEPT ![t].dependent = -1, ![t].dependee = -1,
                                  ![t].rpc = "idle"]
            /\ ret' = ret
  /\ UNCHANGED <<exec_state_, calls, prev, planner_vars, runtime_vars>>

(***************************************************************************)
(* Undefined behaviour: a vertex id beyond the vertex vector (or a null    *)
(* properties pointer) is read without a check.  The build either faults,  *)
(* which ends the process, or reads an indeterminate value and goes on.    *)
(***************************************************************************)
Indeterminate == "indeterminate"

Fault(t, name) ==
  /\ pc' = [u \in Threads |-> "crashed"]
  /\ ret' = Returns(t, name, "SIGSEGV")
  /\ UNCHANGED <<dag_, exec_state_, mtx, loc, calls, prev, planner_vars, runtime_vars>>

\* The body of a query that ends the call: unlock() and return val.
Return(t, name, val) ==
  /\ mtx' = unlock(t)
  /\ ret' = Returns(t, name, val)
  /\ pc' = [pc EXCEPT ![t] = "idle"]
  /\ loc' = [loc EXCEPT ![t] = NoFrame]
  /\ UNCHANGED <<dag_, exec_state_, calls, prev, planner_vars, runtime_vars>>

Enter(t, label, frame) ==
  /\ pc[t] = "idle"
  /\ CanLock(t)
  /\ mtx' = lock(t)
  /\ pc' = [pc EXCEPT ![t] = label]
  /\ loc' = [loc EXCEPT ![t] = frame]
  /\ ret' = NoReturn
  /\ UNCHANGED <<dag_, exec_state_, calls, prev, planner_vars, runtime_vars>>

(***************************************************************************)
(* dependencyExists, getNodeProperties, getNumNodes, getNumDependencies    *)
(***************************************************************************)
dependencyExists(t, vertex_id1, vertex_id2) ==
  Enter(t, "de_body", [NoFrame EXCEPT !.vertex_id = vertex_id1,
                                      !.vertex_id2 = vertex_id2])

de_body(t) ==
  /\ pc[t] = "de_body"
  /\ IF loc[t].vertex_id < num_vertices(dag_)
       THEN Return(t, "dependencyExists",
                   edge(loc[t].vertex_id, loc[t].vertex_id2, dag_))
       ELSE \/ Fault(t, "dependencyExists")
            \/ Return(t, "dependencyExists", Indeterminate)

getNodeProperties(t, vertex_id) ==
  Enter(t, "gnp_body", [NoFrame EXCEPT !.vertex_id = vertex_id])

gnp_body(t) ==
  /\ pc[t] = "gnp_body"
  /\ IF /\ loc[t].vertex_id < num_vertices(dag_)
        /\ dag_[loc[t].vertex_id + 1].properties # nullptr
       THEN Return(t, "getNodeProperties", dag_[loc[t].vertex_id + 1].properties)
       ELSE \/ Fault(t, "getNodeProperties")
            \/ Return(t, "getNodeProperties", Indeterminate)

getNumNodes(t) == Enter(t, "gnn_body", NoFrame)

gnn_body(t) ==
  /\ pc[t] = "gnn_body"
  /\ Return(t, "getNumNodes", num_vertices(dag_))

getNumDependencies(t) == Enter(t, "gnm_body", NoFrame)

gnm_body(t) ==
  /\ pc[t] = "gnm_body"
  /\ Return(t, "getNumDependencies", num_edges(dag_))

(***************************************************************************)
(* getNeighborList, and its callers getNodeDegree and printIt              *)
(***************************************************************************)
getNeighborList(t, vertex_id) ==
  Enter(t, "gnl_body", [NoFrame EXCEPT !.vertex_id = vertex_id])

\* The list l is built and the mutex released; the call returns to the
\* client (rpc = "idle") or into the calling method.
gnl_result(t, l, ub) ==
  /\ mtx' = unlock(t)
  /\ pc' = [pc EXCEPT ![t] = loc[t].rpc]
  /\ IF loc[t].rpc = "idle"
       THEN /\ ret' = Returns(t, "getNeighborList", IF ub THEN Indeterminate ELSE l)
            /\ loc' = [loc EXCEPT ![t] = NoFrame]
       ELSE /\ ret' = ret
            /\ loc' = [loc EXCEPT ![t].l = l, ![t].ub = ub, ![t].rpc = "idle"]
  /\ UNCHANGED <<dag_, exec_state_, calls, prev, planner_vars, runtime_vars>>

gnl_body(t) ==
  /\ pc[t] = "gnl_body"
  /\ IF loc[t].vertex_id < num_vertices(dag_)
       THEN gnl_result(t, adjacent_vertices(loc[t].vertex_id, dag_), FALSE)
       ELSE \/ Fault(t, "getNeighborList")
            \/ gnl_result(t, <<>>, TRUE)

getNodeDegree(t, vertex_id) ==
  Enter(t, "gnd_call", [NoFrame EXCEPT !.vertex_id = vertex_id])

\* The call getNeighborList(vertex_id) under the caller's lock.
gnd_call(t) ==
  /\ pc[t] = "gnd_call"
  /\ CanLock(t)
  /\ mtx' = lock(t)
  /\ loc' = [loc EXCEPT ![t].rpc = "gnd_size"]
  /\ pc' = [pc EXCEPT ![t] = "gnl_body"]
  /\ UNCHANGED <<dag_, exec_state_, ret, calls, prev, planner_vars, runtime_vars>>

\* Mutant: the degree counts the vertex itself.
gnd_size_plus_self(t) ==
  /\ pc[t] = "gnd_size"
  /\ Return(t, "getNodeDegree",
            IF loc[t].ub THEN Indeterminate ELSE Len(loc[t].l) + 1)

gnd_size(t) ==
  /\ pc[t] = "gnd_size"
  /\ Return(t, "getNodeDegree",
            IF loc[t].ub THEN Indeterminate ELSE Len(loc[t].l))

printIt(t) ==
  Enter(t, "pi_loop", [NoFrame EXCEPT !.num_nodes = num_vertices(dag_)])

\* Loop body: deps = getNeighborList(i) under the caller's lock.
pi_call(t) ==
  /\ pc[t] = "pi_loop"
  /\ loc[t].i < loc[t].num_nodes
  /\ CanLock(t)
  /\ mtx' = lock(t)
  /\ loc' = [loc EXCEPT ![t].vertex_id = loc[t].i, ![t].rpc = "pi_print"]
  /\ pc' = [pc EXCEPT ![t] = "gnl_body"]
  /\ UNCHANGED <<dag_, exec_state_, ret, calls, prev, planner_vars, runtime_vars>>

pi_print(t) ==
  /\ pc[t] = "pi_print"
  /\ loc' = [loc EXCEPT ![t].out = Append(@, loc[t].l), ![t].i = @ + 1,
                        ![t].l = <<>>]
  /\ pc' = [pc EXCEPT ![t] = "pi_loop"]
  /\ UNCHANGED <<dag_, exec_state_, mtx, ret, calls, prev, planner_vars, runtime_vars>>

pi_return(t) ==
  /\ pc[t] = "pi_loop"
  /\ loc[t].i >= loc[t].num_nodes
  /\ Return(t, "printIt", loc[t].out)

(***************************************************************************)
(* computeShortestPath: boost::dijkstra_shortest_paths with the distance   *)
(* map over std::size_t and the edge weights as add_edge leaves them.      *)
(***************************************************************************)
DefaultWeight == 0   \* property<edge_weight_t, double>, value-initialised
SizeMax == -1        \* stands for std::numeric_limits<std::size_t>::max()
TwoPow64 == -2       \* stands for 18446744073709551616.0, the double of SizeMax

\* static_cast<double>(di): exact for the small distances, 2^64 for SizeMax.
static_cast_double(di) == IF di = SizeMax THEN TwoPow64 ELSE di

\* for (const auto & di: d) distances.push_back(static_cast<double>(di));
push_back_all(vec, d) == vec \o [k \in 1..Len(d) |-> static_cast_double(d[k])]

closed_plus(a, b) == IF a = SizeMax \/ b = SizeMax THEN SizeMax ELSE a + b

less(a, b) == a # SizeMax /\ (b = SizeMax \/ a < b)

\* Examine the out-edges es of u in order: a white target is relaxed along
\* the tree edge, coloured and pushed; a gray or black one relaxes to nothing
\* because no path is shorter than the one that discovered it.
RECURSIVE examine_edges(_, _, _)
examine_edges(u, es, st) ==
  IF es = <<>> THEN st
  ELSE LET v == Head(es)
           dv == closed_plus(st.d[u + 1], DefaultWeight)
       IN IF v \notin st.seen /\ less(dv, st.d[v + 1])
            THEN examine_edges(u, Tail(es),
                   [d |-> [st.d EXCEPT ![v + 1] = dv],
                    p |-> [st.p EXCEPT ![v + 1] = u],
                    seen |-> st.seen \cup {v},
                    Q |-> Append(st.Q, v)])
            ELSE examine_edges(u, Tail(es), st)

\* The d-ary heap with all keys equal: top is the first element, and pop
\* moves the last element to the front.
heap_pop(Q) ==
  IF Len(Q) = 1 THEN <<>>
  ELSE <<Q[Len(Q)]>> \o SubSeq(Q, 2, Len(Q) - 1)

RECURSIVE breadth_first_visit(_, _)
breadth_first_visit(g, st) ==
  IF st.Q = <<>> THEN st
  ELSE LET u == Head(st.Q)
       IN breadth_first_visit(g,
            examine_edges(u, adjacent_vertices(u, g),
                          [st EXCEPT !.Q = heap_pop(st.Q)]))

dijkstra_shortest_paths(g, s) ==
  LET n == num_vertices(g)
      st0 == [d |-> [k \in 1..n |-> IF k = s + 1 THEN 0 ELSE SizeMax],
              p |-> [k \in 1..n |-> k - 1],
              seen |-> {s},
              Q |-> <<s>>]
      st == breadth_first_visit(g, st0)
  IN [distances |-> st.d, paths |-> st.p]

computeShortestPath(t, startIndex) ==
  Enter(t, "csp_body", [NoFrame EXCEPT !.vertex_id = startIndex])

csp_body(t) ==
  /\ pc[t] = "csp_body"
  /\ IF /\ loc[t].vertex_id < num_vertices(dag_)
        /\ \A a \in 0..(num_vertices(dag_) - 1) :
             \A k \in 1..Len(dag_[a + 1].m_out_edges) :
               dag_[a + 1].m_out_edges[k] < num_vertices(dag_)
       THEN LET r == dijkstra_shortest_paths(dag_, loc[t].vertex_id)
            IN Return(t, "computeShortestPath",
                      [distances |-> push_back_all(<<>>, r.distances),
                       paths |-> <<>> \o r.paths])
       ELSE \/ Fault(t, "computeShortestPath")
            \/ Return(t, "computeShortestPath", Indeterminate)

(***************************************************************************)
(* clear                                                                   *)
(***************************************************************************)
clear(t) == Enter(t, "cl_body", NoFrame)

\* Mutant: clear() drops the graph but not the ExecState.
cl_clear_keep_exec_state(t) ==
  /\ pc[t] = "cl_body"
  /\ dag_' = <<>>
  /\ exec_state_' = exec_state_
  /\ calls' = <<>>
  /\ mtx' = unlock(t)
  /\ ret' = Returns(t, "clear", "void")
  /\ pc' = [pc EXCEPT ![t] = "idle"]
  /\ loc' = [loc EXCEPT ![t] = NoFrame]
  /\ UNCHANGED <<planner_vars, runtime_vars>>

cl_clear(t) ==
  /\ pc[t] = "cl_body"
  /\ dag_' = <<>>
  /\ exec_state_' = [T \in Tensors |-> NoTensorInfo]
  /\ calls' = <<>>
  /\ mtx' = unlock(t)
  /\ ret' = Returns(t, "clear", "void")
  /\ pc' = [pc EXCEPT ![t] = "idle"]
  /\ loc' = [loc EXCEPT ![t] = NoFrame]
  /\ UNCHANGED <<planner_vars, runtime_vars>>

cl_body(t) == cl_clear(t) /\ UNCHANGED prev

\* clear() observed by a client that keeps what it had inserted.
cl_record(t) ==
  /\ cl_clear(t)
  /\ prev' = [calls |-> calls, dag |-> dag_, recorded |-> TRUE]

(***************************************************************************)
(* Exceptions: an allocation under the lock throws std::bad_alloc and the  *)
(* call is left without reaching its unlock().                             *)
(***************************************************************************)
ao_throw(t) ==
  /\ pc[t] = "ao_add_vertex"
  /\ mtx.count <= MaxLockCount
  /\ ret' = Returns(t, "addOperation", "std::bad_alloc")
  /\ pc' = [pc EXCEPT ![t] = "idle"]
  /\ loc' = [loc EXCEPT ![t] = NoFrame]
  /\ UNCHANGED <<dag_, exec_state_, mtx, calls, prev, planner_vars, runtime_vars>>

csp_throw(t) ==
  /\ pc[t] = "csp_body"
  /\ mtx.count <= MaxLockCount
  /\ ret' = Returns(t, "computeShortestPath", "std::bad_alloc")
  /\ pc' = [pc EXCEPT ![t] = "idle"]
  /\ loc' = [loc EXCEPT ![t] = NoFrame]
  /\ UNCHANGED <<dag_, exec_state_, mtx, calls, prev, planner_vars, runtime_vars>>

(***************************************************************************)
(* Specifications                                                          *)
(***************************************************************************)
AddOperationSteps(t) ==
  \/ ao_add_vertex(t)
  \/ ao_dependency(t)
  \/ ao_register_write(t)
  \/ ao_input(t)
  \/ ao_register_read(t)
  \/ ao_return(t)
  \/ ad_add_edge(t)

QuerySteps(t) ==
  \/ de_body(t)
  \/ gnp_body(t)
  \/ gnn_body(t)
  \/ gnm_body(t)
  \/ gnl_body(t)
  \/ gnd_call(t)
  \/ gnd_size(t)
  \/ pi_call(t)
  \/ pi_print(t)
  \/ pi_return(t)
  \/ csp_body(t)
  \/ cl_body(t)

\* The calls a client makes, its vertex-id arguments drawn from ids.
Calls(t, ids) ==
  \/ \E op \in OpsSmall : num_vertices(dag_) < MaxVertices /\ addOperation(t, op)
  \/ \E a, b \in ids : num_edges(dag_) < MaxEdges /\ addDependency(t, a, b)
  \/ \E a, b \in ids : dependencyExists(t, a, b)
  \/ \E v \in ids : getNodeProperties(t, v)
  \/ \E v \in ids : getNodeDegree(t, v)
  \/ getNumNodes(t)
  \/ getNumDependencies(t)
  \/ \E v \in ids : getNeighborList(t, v)
  \/ \E v \in ids : computeShortestPath(t, v)
  \/ printIt(t)
  \/ clear(t)

\* Client threads that only insert operations.
NextOps ==
  \E t \in Threads :
    \/ \E op \in Ops : num_vertices(dag_) < MaxNodes /\ addOperation(t, op)
    \/ AddOperationSteps(t)

SpecOps == Init /\ [][NextOps]_vars

\* Client threads that only insert operations on the tensors X and Y.
NextOpsSmall ==
  \E t \in Threads :
    \/ \E op \in OpsSmall : num_vertices(dag_) < MaxNodes /\ addOperation(t, op)
    \/ AddOperationSteps(t)

SpecOpsSmall == Init /\ [][NextOpsSmall]_vars

\* Clients that pass only ids of existing vertices.
NextValid ==
  \E t \in Threads :
    \/ Calls(t, 0..(num_vertices(dag_) - 1))
    \/ AddOperationSteps(t)
    \/ QuerySteps(t)

SpecValid == Init /\ [][NextValid]_vars

\* Clients that pass any vertex id.
Next ==
  \E t \in Threads :
    \/ Calls(t, 0..(MaxVertices - 1))
    \/ AddOperationSteps(t)
    \/ QuerySteps(t)

Spec == Init /\ [][Next]_vars

\* Clients that pass only ids of existing vertices, with allocations that
\* may fail.
NextExc ==
  \/ NextValid
  \/ \E t \in Threads : ao_throw(t) \/ csp_throw(t)

SpecExc == Init /\ [][NextExc]_vars

\* Clients that insert operation streams and clear the graph in between.
NextClear ==
  \E t \in Threads :
    \/ \E op \in OpsSmall : num_vertices(dag_) < MaxVertices /\ addOperation(t, op)
    \/ AddOperationSteps(t)
    \/ clear(t)
    \/ cl_record(t)

SpecClear == Init /\ [][NextClear]_vars

\* One client that inserts operations, each writing a tensor of its own and
\* possibly reading the first one, declares dependencies of earlier on later
\* vertices itself, and asks for shortest paths.
MaxPathVertices == 4
MaxPathEdges == 4
PathClient == 1
PathTensors == <<"X", "Y", "Z", "W">>

PathOps ==
  LET T == PathTensors[(num_vertices(dag_) % Len(PathTensors)) + 1]
  IN {<<T>>, <<T, "X">>}

NextPath ==
  \/ \E op \in PathOps :
       num_vertices(dag_) < MaxPathVertices /\ addOperation(PathClient, op)
  \/ \E a, b \in 0..(num_vertices(dag_) - 1) :
       /\ a < b
       /\ ~edge(a, b, dag_)
       /\ num_edges(dag_) < MaxPathEdges
       /\ addDependency(PathClient, a, b)
  \/ \E v \in 0..(num_vertices(dag_) - 1) : computeShortestPath(PathClient, v)
  \/ AddOperationSteps(PathClient)
  \/ csp_body(PathClient)

SpecPath == Init /\ [][NextPath]_vars

(***************************************************************************)
(* ContractionSeqOptimizerHeuro: the tensor network it is given.           *)
(*                                                                         *)
(* A network state maps factor ids to tensors; id 0 is the output tensor.  *)
(* A tensor is identified by the set of input factors it was merged from.  *)
(* Iteration over the network visits the ids in ascending order.           *)
(***************************************************************************)
MaxWalkers == 2      \* beam widths the clients configure

NumFactors == {0, 1, 2, 3, 4}
CostValues == {0, 1, 2, 3}
CostKinds == {"l13", "l12", "ll", "s", "b"}
Generators == {"counter", "constant"}
RunIds == {1, 2}

\* The cost routine of a network: the FLOP estimate of a pair of tensors
\* depends on which input factors they hold.
CostKind(A, B) ==
  IF Cardinality(A) = 1 /\ Cardinality(B) = 1
    THEN IF A \cup B = {1, 3} THEN "l13"
         ELSE IF A \cup B = {1, 2} THEN "l12" ELSE "ll"
  ELSE IF A = {1, 2} \/ B = {1, 2} \/ (Cardinality(A) >= 2 /\ Cardinality(B) >= 2)
    THEN "s"
  ELSE "b"

getTensorContractionCost(tensor_i, tensor_j) ==
  network.cost[CostKind(tensor_i, tensor_j)]

\* The networks: kinds a network cannot evaluate are left at 0.
Networks ==
  {nw \in [n : NumFactors, cost : [CostKinds -> CostValues]] :
     \A k \in CostKinds :
       (\A A, B \in SUBSET (1..nw.n) :
          (A # {} /\ B # {} /\ A \cap B = {}) => CostKind(A, B) # k)
       => nw.cost[k] = 0}

InputNetwork(n) == [id \in 0..n |-> IF id = 0 THEN {} ELSE {id}]

getNumTensors(net) == Cardinality(DOMAIN net) - 1

\* mergeTensors(i, j, new_id): false when new_id is no new factor id.
mergeContracted(net, i, j, new_id) ==
  /\ i # j /\ i # 0 /\ j # 0
  /\ new_id \notin DOMAIN net

mergeTensors(net, i, j, new_id) ==
  [id \in (DOMAIN net \ {i, j}) \cup {new_id} |->
     IF id = new_id THEN net[i] \cup net[j] ELSE net[id]]

RECURSIVE Ascending(_)
Ascending(S) ==
  IF S = {} THEN <<>>
  ELSE LET m == CHOOSE x \in S : \A y \in S : x <= y
       IN <<m>> \o Ascending(S \ {m})

\* unsigned int arithmetic wraps modulo 2^32; the modulus is scaled down to
\* 2^16 to fit the integers of the model checker.
UIntModulus == 65536

\* The id generator: the value of its (k + 1)-th invocation.
FirstIntermediateId == 5

GeneratorValue(kind, k) ==
  IF kind = "counter" THEN FirstIntermediateId + k ELSE FirstIntermediateId

(***************************************************************************)
(* std::priority_queue<ContrPath, std::vector<ContrPath>, cmpPaths>: the   *)
(* heap array with std::push_heap / std::pop_heap.  Element k of the array *)
(* (from 0) is element k + 1 here.                                         *)
(***************************************************************************)
\* Mutant: paths of equal cost are ordered by a value that changes from run
\* to run.
cmpPaths_by_run(left, right) ==
  \/ left.cost < right.cost
  \/ left.cost = right.cost /\ Len(runs) = 1 /\ Len(left.seq) = 1
       /\ left.seq[1].right_id > right.seq[1].right_id

cmpPaths(left, right) == left.cost < right.cost

RECURSIVE push_heap_up(_, _, _)
push_heap_up(h, hole, value) ==
  IF hole > 1 /\ cmpPaths(h[hole \div 2], value)
    THEN push_heap_up([h EXCEPT ![hole] = h[hole \div 2]], hole \div 2, value)
  ELSE [h EXCEPT ![hole] = value]

priq_emplace(h, value) == push_heap_up(Append(h, value), Len(h) + 1, value)

RECURSIVE adjust_heap_down(_, _, _)
adjust_heap_down(h, len, secondChild) ==
  IF secondChild < (len - 1) \div 2
    THEN LET c2 == 2 * (secondChild + 1)
             c == IF cmpPaths(h[c2 + 1], h[c2]) THEN c2 - 1 ELSE c2
         IN adjust_heap_down([h EXCEPT ![secondChild + 1] = h[c + 1]], len, c)
  ELSE [h |-> h, hole |-> secondChild]

priq_pop(h) ==
  IF Len(h) <= 1 THEN <<>>
  ELSE LET value == h[Len(h)]
           h0 == SubSeq(h, 1, Len(h) - 1)
           len == Len(h0)
           a == adjust_heap_down(h0, len, 0)
           b == IF len % 2 = 0 /\ a.hole = (len - 2) \div 2
                  THEN [h |-> [a.h EXCEPT ![a.hole + 1] = a.h[2 * (a.hole + 1)]],
                        hole |-> 2 * (a.hole + 1) - 1]
                ELSE a
       IN push_heap_up(b.h, b.hole + 1, value)

priq_top(h) == h[1]

(***************************************************************************)
(* resetNumWalkers and determineContractionSequence                        *)
(***************************************************************************)
resetNumWalkers(num_walkers) ==
  /\ ppc = "idle"
  /\ Len(runs) + 1 \in RunIds
  /\ num_walkers_' = num_walkers
  /\ UNCHANGED <<network, intermediate_num_generator, ppc, pass,
                 intermediate_id, inputPaths, cands, priq, contr_seq, flops,
                 runs, graph_vars, runtime_vars>>

numContractions == (network.n - 1) % UIntModulus

RunResult(status) ==
  [num_walkers |-> num_walkers_, status |-> status,
   contr_seq |-> contr_seq, flops |-> flops,
   generated |-> intermediate_num_generator.calls]

\* Entry: contr_seq.clear(), flops = 0.0, the early return for
\* numContractions == 0, else the initial beam and the empty queue.
determineContractionSequence ==
  /\ ppc = "idle"
  /\ Len(runs) + 1 \in RunIds
  /\ contr_seq' = <<>>
  /\ flops' = 0
  /\ intermediate_num_generator' = [intermediate_num_generator EXCEPT !.calls = 0]
  /\ pass' = 0
  /\ intermediate_id' = 0
  /\ cands' = <<>>
  /\ priq' = <<>>
  /\ IF numContractions = 0
       THEN /\ inputPaths' = <<>>
            /\ ppc' = "return"
       ELSE /\ inputPaths' = <<[net |-> InputNetwork(network.n), seq |-> <<>>,
                                cost |-> 0]>>
            /\ ppc' = "loop"
  /\ UNCHANGED <<network, num_walkers_, runs, graph_vars, runtime_vars>>

\* The pairs (i, j) the two nested loops over a network visit, in order.
RECURSIVE PairsFrom(_)
PairsFrom(ids) ==
  IF Len(ids) <= 1 THEN <<>>
  ELSE [k \in 1..(Len(ids) - 1) |-> <<ids[1], ids[k + 1]>>] \o PairsFrom(Tail(ids))

UniquePairs(net) == PairsFrom(Ascending(DOMAIN net \ {0}))

\* The candidates of a pass: for each path of the beam, in order, each pair.
RECURSIVE Candidates(_)
Candidates(paths) ==
  IF paths = <<>> THEN <<>>
  ELSE LET prs == UniquePairs(Head(paths).net)
       IN [k \in 1..Len(prs) |->
             [parent |-> Head(paths), i |-> prs[k][1], j |-> prs[k][2]]]
          \o Candidates(Tail(paths))

\* Mutant: a pass keeps the intermediate id of the pass before.
pl_pass_begin_no_draw ==
  /\ ppc = "loop"
  /\ pass < numContractions
  /\ ~(inputPaths = <<>> /\ pass < numContractions - 1)
  /\ cands' = Candidates(inputPaths)
  /\ ppc' = "candidates"
  /\ UNCHANGED <<network, num_walkers_, intermediate_num_generator, pass,
                 intermediate_id, inputPaths, priq, contr_seq, flops, runs,
                 graph_vars, runtime_vars>>

\* Top of the pass loop: the id of the next intermediate tensor.
pl_pass_begin ==
  /\ ppc = "loop"
  /\ pass < numContractions
  /\ ~(inputPaths = <<>> /\ pass < numContractions - 1)
  /\ intermediate_id' = GeneratorValue(intermediate_num_generator.kind,
                                       intermediate_num_generator.calls)
  /\ intermediate_num_generator' = [intermediate_num_generator EXCEPT !.calls = @ + 1]
  /\ cands' = Candidates(inputPaths)
  /\ ppc' = "candidates"
  /\ UNCHANGED <<network, num_walkers_, pass, inputPaths, priq, contr_seq,
                 flops, runs, graph_vars, runtime_vars>>

\* The passes before the last one that start with an empty beam: each
\* invokes the generator, finds no candidate and leaves the beam empty.
pl_empty_passes ==
  /\ ppc = "loop"
  /\ inputPaths = <<>>
  /\ pass < numContractions - 1
  /\ intermediate_id' = GeneratorValue(intermediate_num_generator.kind,
                                       intermediate_num_generator.calls
                                         + (numContractions - 2 - pass))
  /\ intermediate_num_generator' =
       [intermediate_num_generator EXCEPT !.calls = @ + (numContractions - 1 - pass)]
  /\ pass' = numContractions - 1
  /\ UNCHANGED <<network, num_walkers_, ppc, inputPaths, cands, priq,
                 contr_seq, flops, runs, graph_vars, runtime_vars>>

\* Mutant: the last pass too writes into the intermediate tensor.
ChildPath_no_output(c) ==
  [net |-> mergeTensors(c.parent.net, c.i, c.j, intermediate_id),
   seq |-> Append(c.parent.seq,
                  [result_id |-> intermediate_id,
                   left_id |-> c.i, right_id |-> c.j]),
   cost |-> getTensorContractionCost(c.parent.net[c.i], c.parent.net[c.j])
              + c.parent.cost]

\* Mutant: the child keeps the network of its parent.
ChildPath_parent_net(c) ==
  [net |-> c.parent.net,
   seq |-> Append(c.parent.seq,
                  [result_id |-> IF pass = numContractions - 1 THEN 0
                                 ELSE intermediate_id,
                   left_id |-> c.i, right_id |-> c.j]),
   cost |-> getTensorContractionCost(c.parent.net[c.i], c.parent.net[c.j])
              + c.parent.cost]

\* The child of a candidate: the pair merged in a clone of the parent's
\* network, the triple appended, the cost added.
ChildPath(c) ==
  [net |-> mergeTensors(c.parent.net, c.i, c.j, intermediate_id),
   seq |-> Append(c.parent.seq,
                  [result_id |-> IF pass = numContractions - 1 THEN 0
                                 ELSE intermediate_id,
                   left_id |-> c.i, right_id |-> c.j]),
   cost |-> getTensorContractionCost(c.parent.net[c.i], c.parent.net[c.j])
              + c.parent.cost]

\* Mutant: the queue is not cut back to num_walkers_ entries.
priq_insert_unbounded(h, child) == priq_emplace(h, child)

\* priq.emplace(child); if(priq.size() > num_walkers_) priq.pop();
priq_insert(h, child) ==
  LET h1 == priq_emplace(h, child)
  IN IF Len(h1) > num_walkers_ THEN priq_pop(h1) ELSE h1

\* Mutant: the pair is merged in the caller's network, not in a clone.
pl_candidate_in_place ==
  /\ ppc = "candidates"
  /\ cands # <<>>
  /\ priq' = priq_insert(priq, ChildPath(Head(cands)))
  /\ cands' = Tail(cands)
  /\ network' = [network EXCEPT !.n = @ - 1]
  /\ UNCHANGED <<num_walkers_, intermediate_num_generator, ppc, pass,
                 intermediate_id, inputPaths, contr_seq, flops, runs, graph_vars, runtime_vars>>

\* One iteration of the innermost loop; assert(contracted) ends the run.
pl_candidate ==
  /\ ppc = "candidates"
  /\ cands # <<>>
  /\ LET c == Head(cands)
     IN IF mergeContracted(c.parent.net, c.i, c.j, intermediate_id)
          THEN /\ priq' = priq_insert(priq, ChildPath(c))
               /\ cands' = Tail(cands)
               /\ ppc' = ppc
          ELSE /\ ppc' = "aborted"
               /\ UNCHANGED <<priq, cands>>
  /\ UNCHANGED <<network, num_walkers_, intermediate_num_generator, pass,
                 intermediate_id, inputPaths, contr_seq, flops, runs, graph_vars, runtime_vars>>

\* while(priq.size() > 0){inputPaths.emplace_back(priq.top()); priq.pop();}
RECURSIVE Drain(_)
Drain(h) == IF h = <<>> THEN <<>> ELSE <<priq_top(h)>> \o Drain(priq_pop(h))

\* while(priq.size() > 1) priq.pop();
RECURSIVE PopToOne(_)
PopToOne(h) == IF Len(h) <= 1 THEN h ELSE PopToOne(priq_pop(h))

\* Mutant: the last pass returns the top of the queue as it stands.
FinalPath_top(h) == priq_top(h)

FinalPath(h) == priq_top(PopToOne(h))

\* End of a pass: collect the paths left in the queue.  On the last pass an
\* empty queue makes priq.top() undefined.
pl_collect ==
  /\ ppc = "candidates"
  /\ cands = <<>>
  /\ IF pass = numContractions - 1
       THEN IF priq # <<>>
              THEN /\ contr_seq' = FinalPath(priq).seq
                   /\ flops' = FinalPath(priq).cost
                   /\ ppc' = "loop"
              ELSE \/ /\ ppc' = "crashed"
                      /\ UNCHANGED <<contr_seq, flops>>
                   \/ /\ contr_seq' = Indeterminate
                      /\ flops' = Indeterminate
                      /\ ppc' = "loop"
       ELSE /\ ppc' = "loop"
            /\ UNCHANGED <<contr_seq, flops>>
  /\ inputPaths' = IF pass = numContractions - 1 THEN <<>> ELSE Drain(priq)
  /\ priq' = <<>>
  /\ pass' = pass + 1
  /\ UNCHANGED <<network, num_walkers_, intermediate_num_generator,
                 intermediate_id, cands, runs, graph_vars, runtime_vars>>

pl_return ==
  /\ \/ ppc = "return"
     \/ ppc = "loop" /\ pass >= numContractions
  /\ runs' = Append(runs, RunResult("returned"))
  /\ ppc' = "idle"
  /\ UNCHANGED <<network, num_walkers_, intermediate_num_generator, pass,
                 intermediate_id, inputPaths, cands, priq, contr_seq, flops,
                 graph_vars, runtime_vars>>

InitPlan ==
  /\ GraphFresh
  /\ FrameworkDown(FALSE)
  /\ network \in Networks
  /\ num_walkers_ \in 1..MaxWalkers
  /\ intermediate_num_generator \in [kind : Generators, calls : {0}]
  /\ ppc = "idle"
  /\ pass = 0
  /\ intermediate_id = 0
  /\ inputPaths = <<>>
  /\ cands = <<>>
  /\ priq = <<>>
  /\ contr_seq = <<>>
  /\ flops = 0
  /\ runs = <<>>

NextPlan ==
  \/ \E w \in 1..MaxWalkers : resetNumWalkers(w)
  \/ determineContractionSequence
  \/ pl_pass_begin
  \/ pl_empty_passes
  \/ pl_candidate
  \/ pl_collect
  \/ pl_return

SpecPlan == InitPlan /\ [][NextPlan]_vars

\* Callers that may also pass 0 to resetNumWalkers(unsigned int).
InitPlanAny ==
  /\ GraphFresh
  /\ FrameworkDown(FALSE)
  /\ network \in Networks
  /\ num_walkers_ \in 0..MaxWalkers
  /\ intermediate_num_generator \in [kind : Generators, calls : {0}]
  /\ ppc = "idle"
  /\ pass = 0
  /\ intermediate_id = 0
  /\ inputPaths = <<>>
  /\ cands = <<>>
  /\ priq = <<>>
  /\ contr_seq = <<>>
  /\ flops = 0
  /\ runs = <<>>

NextPlanAny ==
  \/ resetNumWalkers(0)
  \/ NextPlan

SpecPlanAny == InitPlanAny /\ [][NextPlanAny]_vars

(***************************************************************************)
(* exatn::initialize, exatn::isInitialized, exatn::finalize                *)
(* One caller issues the calls one after the other.  The build is with or  *)
(* without MPI_ENABLED.  MPI may be initialised once and not again after   *)
(* MPI_Finalize.                                                           *)
(***************************************************************************)
MaxCalls == 5

\* if(!exatnFrameworkInitialized){...} return;
initialize ==
  /\ main.pc = "idle"
  /\ Len(main.calls) < MaxCalls
  /\ main' = [main EXCEPT !.calls = Append(@, "initialize"),
                          !.pc = IF exatn.exatnFrameworkInitialized
                                   THEN "idle" ELSE "in_services"]
  /\ UNCHANGED <<exatn, graph_vars, planner_vars>>

\* serviceRegistry->initialize(); exatnFrameworkInitialized = true;
in_services ==
  /\ main.pc = "in_services"
  /\ exatn' = [exatn EXCEPT !.serviceRegistry = @ + 1,
                            !.exatnFrameworkInitialized = TRUE]
  /\ main' = [main EXCEPT !.pc = IF exatn.MPI_ENABLED THEN "in_mpi"
                                 ELSE "in_server"]
  /\ UNCHANGED <<graph_vars, planner_vars>>

\* MPI_Init_thread(...); the asserts; exatnInitializedMPI = true.  A call
\* after MPI_Finalize (or a second call) is erroneous: the library aborts or
\* assert(mpi_error == MPI_SUCCESS) fails.
in_mpi ==
  /\ main.pc = "in_mpi"
  /\ IF exatn.mpi = "uninitialized"
       THEN /\ exatn' = [exatn EXCEPT !.mpi = "initialized",
                                      !.exatnInitializedMPI = TRUE]
            /\ main' = [main EXCEPT !.pc = "in_server"]
       ELSE /\ main' = [main EXCEPT !.pc = "aborted"]
            /\ UNCHANGED exatn
  /\ UNCHANGED <<graph_vars, planner_vars>>

\* The NumServer made by the k-th call of the caller.
NewServer == Len(main.calls)

\* numericalServer.reset(): the handle is null and the server it owned ends.
reset(e) ==
  [e EXCEPT !.numericalServer = nullServer,
            !.servers = @ \ {e.numericalServer}]

\* numericalServer = std::make_shared<NumServer>(...): the handle owns the
\* new server and the server it owned before, if any, ends.
make_shared(e, id) ==
  [reset(e) EXCEPT !.numericalServer = id, !.servers = @ \cup {id}]

\* (exatnInitializedMPI = false;) numericalServer = std::make_shared<...>;
\* bool synced = numericalServer->sync(); assert(synced); return;
in_server ==
  /\ main.pc = "in_server"
  /\ exatn' = [make_shared(exatn, NewServer) EXCEPT
                 !.exatnInitializedMPI = IF exatn.MPI_ENABLED THEN @ ELSE FALSE]
  /\ main' = [main EXCEPT !.pc = "idle"]
  /\ UNCHANGED <<graph_vars, planner_vars>>

\* return exatnFrameworkInitialized;
isInitialized ==
  /\ main.pc = "idle"
  /\ Len(main.calls) < MaxCalls
  /\ main' = [main EXCEPT !.calls = Append(@, "isInitialized"),
                          !.ret = exatn.exatnFrameworkInitialized]
  /\ UNCHANGED <<exatn, graph_vars, planner_vars>>

\* if(exatnFrameworkInitialized){...} return;
finalize ==
  /\ main.pc = "idle"
  /\ Len(main.calls) < MaxCalls
  /\ main' = [main EXCEPT !.calls = Append(@, "finalize"),
                          !.pc = IF exatn.exatnFrameworkInitialized
                                   THEN "fi_server" ELSE "idle"]
  /\ UNCHANGED <<exatn, graph_vars, planner_vars>>

\* numericalServer->sync(true,true); assert(synced); numericalServer.reset();
\* a null handle makes the call of sync undefined.
fi_server ==
  /\ main.pc = "fi_server"
  /\ IF exatn.numericalServer # nullServer
       THEN /\ exatn' = reset(exatn)
            /\ main' = [main EXCEPT !.pc = "fi_mpi"]
       ELSE /\ main' = [main EXCEPT !.pc = "aborted"]
            /\ UNCHANGED exatn
  /\ UNCHANGED <<graph_vars, planner_vars>>

\* if(exatnInitializedMPI){MPI_Finalize(); exatnInitializedMPI = false;}
\* exatnFrameworkInitialized = false; return;
fi_mpi ==
  /\ main.pc = "fi_mpi"
  /\ exatn' = [exatn EXCEPT
                 !.mpi = IF exatn.MPI_ENABLED /\ exatn.exatnInitializedMPI
                           THEN "finalized" ELSE @,
                 !.exatnInitializedMPI =
                   IF exatn.MPI_ENABLED THEN FALSE ELSE @,
                 !.exatnFrameworkInitialized = FALSE]
  /\ main' = [main EXCEPT !.pc = "idle"]
  /\ UNCHANGED <<graph_vars, planner_vars>>

InitRuntime ==
  /\ GraphFresh
  /\ PlannerIdle
  /\ \E build \in BOOLEAN : FrameworkDown(build)

NextRuntime ==
  \/ initialize
  \/ in_services
  \/ in_mpi
  \/ in_server
  \/ isInitialized
  \/ finalize
  \/ fi_server
  \/ fi_mpi

SpecRuntime == InitRuntime /\ [][NextRuntime]_vars

(***************************************************************************)
(* Vocabulary of the properties                                            *)
(***************************************************************************)
Vertices == 0..(num_vertices(dag_) - 1)

OpOf(v) == dag_[v + 1].properties.op

Writes(op, T) == Len(op) >= 1 /\ op[1] = T

Reads(op, T) == \E k \in 2..Len(op) : op[k] = T

Touches(op, T) == Writes(op, T) \/ Reads(op, T)

\* The addOperation call that created vertex v has returned.
Completed(v) == \A t \in Threads : pc[t] = "idle" \/ loc[t].vid # v

AllIdle == \A t \in Threads : pc[t] = "idle"

RECURSIVE ReachableIn(_, _)
ReachableIn(S, n) ==
  IF n = 0 THEN S
  ELSE LET step == {b \in Vertices : \E a \in S : edge(a, b, dag_)}
       IN ReachableIn(S \cup step, n - 1)

\* A directed path of at least one edge from y to x.
Path(y, x) ==
  x \in ReachableIn({b \in Vertices : edge(y, b, dag_)}, num_vertices(dag_))

(***************************************************************************)
(* C1.  Hazard correctness: for every two operations X (inserted earlier)  *)
(* and Y (inserted later) that share a tensor T which at least one of them *)
(* writes, the graph has a directed path from Y's vertex to X's vertex.    *)
(***************************************************************************)
C1_HazardCorrectness ==
  \A x, y \in Vertices :
    ( /\ x < y
      /\ Completed(y)
      /\ \E T \in Tensors :
           /\ Touches(OpOf(x), T) /\ Touches(OpOf(y), T)
           /\ (Writes(OpOf(x), T) \/ Writes(OpOf(y), T)) )
    => Path(y, x)

(***************************************************************************)
(* C2.  Acyclicity: every edge a -> b has b < a in vertex-id order; in     *)
(* particular an operation whose output tensor is also one of its inputs   *)
(* gets no self-edge.                                                      *)
(***************************************************************************)
C2_Acyclicity ==
  \A a, b \in Vertices : edge(a, b, dag_) => b < a

(***************************************************************************)
(* C3.  Write-after-read: W writes X, then A and B are inserted with X     *)
(* only among their inputs, then C is inserted with X as its output, no    *)
(* other operation touching X in between.  Then the neighbor list of C     *)
(* contains A and B, and operand X puts no edge between A and B: when X is *)
(* the only tensor A and B share there is no edge A -> B and none B -> A.  *)
(***************************************************************************)
\* The operations between w and c that touch T.
Between(w, c, T) == {v \in Vertices : w < v /\ v < c /\ Touches(OpOf(v), T)}

C3_Scenario(w, c, T) ==
  /\ w < c
  /\ Completed(c)
  /\ Writes(OpOf(w), T)
  /\ Writes(OpOf(c), T)
  /\ Cardinality(Between(w, c, T)) = 2
  /\ \A v \in Between(w, c, T) : ~Writes(OpOf(v), T)

ShareOnly(a, b, T) ==
  \A U \in Tensors : (Touches(OpOf(a), U) /\ Touches(OpOf(b), U)) => U = T

InList(l, v) == \E k \in 1..Len(l) : l[k] = v

C4_Scenario(a, b, T) ==
  /\ a < b
  /\ Completed(b)
  /\ Writes(OpOf(a), T)
  /\ \A v \in Vertices : (a < v /\ v < b) => ~Writes(OpOf(v), T)
  /\ Reads(OpOf(b), T)
  /\ OpOf(b)[1] # T
  /\ \A v \in Vertices : v < b => ~Touches(OpOf(v), OpOf(b)[1])

C4_ReadAfterWrite ==
  \A a, b \in Vertices : \A T \in Tensors :
    C4_Scenario(a, b, T) =>
      /\ edge(b, a, dag_)
      /\ adjacent_vertices(b, dag_) = <<a>>

(***************************************************************************)
(* C5.  Write-after-write: from an empty graph, inserting A with output X  *)
(* and then B with output X, neither reading a tensor that has been        *)
(* written, gives dependencyExists(B, A), one dependency in the graph and  *)
(* the neighbor list [A] for B.                                            *)
(***************************************************************************)
C5_Scenario ==
  /\ num_vertices(dag_) = 2
  /\ Completed(1)
  /\ \E T \in Tensors :
       /\ Writes(OpOf(0), T) /\ Writes(OpOf(1), T)
       /\ ~Reads(OpOf(0), T) /\ ~Reads(OpOf(1), T)

C5_WriteAfterWrite ==
  C5_Scenario =>
    /\ edge(1, 0, dag_)
    /\ num_edges(dag_) = 1
    /\ adjacent_vertices(1, dag_) = <<0>>

C5_Witness == C5_Scenario /\ AllIdle

(***************************************************************************)
(* Sequential execution of addOperation calls: each call runs from its     *)
(* lock() to its unlock() with no other call in between.                   *)
(***************************************************************************)
RECURSIVE add_edges(_, _, _)
add_edges(g, u, nodes) ==
  IF nodes = <<>> THEN g
  ELSE add_edges(add_edge(u, Head(nodes), g), u, Tail(nodes))

RECURSIVE SeqInputs(_, _, _, _)
SeqInputs(st, op, vid, i) ==
  IF i > Len(op) THEN st
  ELSE LET r == getTensorEpochNodes(st.es, op[i])
       IN SeqInputs([g |-> add_edges(st.g, vid, InputHazardNodes(r)),
                     es |-> registerTensorRead(st.es, op[i], vid)],
                    op, vid, i + 1)

SeqAddOperation(st, op) ==
  LET vid == num_vertices(st.g)
      g1 == [add_vertex(st.g) EXCEPT
               ![vid + 1].properties = [op |-> op, id |-> vid]]
      r == getTensorEpochNodes(st.es, op[1])
  IN SeqInputs([g |-> add_edges(g1, vid, OutputHazardNodes(r)),
                es |-> registerTensorWrite(st.es, op[1], vid)],
               op, vid, 2)

RECURSIVE SeqRun(_)
SeqRun(cs) ==
  IF cs = <<>> THEN [g |-> <<>>, es |-> [T \in Tensors |-> NoTensorInfo]]
  ELSE SeqAddOperation(SeqRun(SubSeq(cs, 1, Len(cs) - 1)), cs[Len(cs)])

\* The vertex-id order is the order in which the calls acquired the mutex,
\* and between calls the graph and the ExecState are those of the sequential
\* execution of the calls in that order.
SerializedInLockOrder ==
  /\ \A v \in Vertices :
       /\ v + 1 <= Len(calls)
       /\ OpOf(v) = calls[v + 1]
       /\ dag_[v + 1].properties.id = v
  /\ AllIdle => /\ dag_ = SeqRun(calls).g
                /\ exec_state_ = SeqRun(calls).es

(***************************************************************************)
(* C6.  Concurrent addOperation calls are linearizable: vertex ids, edges  *)
(* and ExecState equal those of a sequential execution of the same calls   *)
(* in the order they acquired the graph mutex, and every hazard edge of a  *)
(* call points to a vertex registered strictly before it.                  *)
(***************************************************************************)
C6_Linearizable ==
  /\ SerializedInLockOrder
  /\ \A a \in Vertices :
       \A k \in 1..Len(adjacent_vertices(a, dag_)) :
         adjacent_vertices(a, dag_)[k] < a

(***************************************************************************)
(* C7.  As stated: no public operation invokes another locking public      *)
(* operation while it holds the graph mutex, so the mutex is never         *)
(* acquired by a thread that already holds it.                             *)
(***************************************************************************)
C7_NoNestedLocking == mtx.count <= 1

\* The positions at which a thread is inside a public operation called by
\* another public operation.
InNestedCall(t) ==
  \/ pc[t] = "ad_add_edge" /\ loc[t].rpc \in {"ao_out_deps", "ao_in_deps"}
  \/ pc[t] = "gnl_body" /\ loc[t].rpc \in {"gnd_size", "pi_print"}

(***************************************************************************)
(* C7, amended.  addOperation calls the locking addDependency, and         *)
(* getNodeDegree and printIt call the locking getNeighborList, while they  *)
(* hold the graph mutex: the owner then holds it twice, so the mutex has   *)
(* to be re-entrant.  These are the only nested acquisitions and the depth *)
(* never exceeds two.                                                      *)
(***************************************************************************)
C7_NestedLocking ==
  /\ mtx.count <= 2
  /\ \A t \in Threads :
       pc[t] # "crashed" =>
         /\ InNestedCall(t) => (mtx.owner = t /\ mtx.count = 2)
         /\ (mtx.owner = t /\ mtx.count = 2) => InNestedCall(t)
         /\ (pc[t] # "idle" /\ ~InNestedCall(t)) => (mtx.owner = t /\ mtx.count = 1)
         /\ pc[t] = "idle" => mtx.owner # t

C7_Witness ==
  /\ \E t \in Threads : pc[t] = "gnl_body" /\ loc[t].rpc = "gnd_size"
  /\ mtx.count = 2

(***************************************************************************)
(* C8.  Every public operation releases the graph mutex on every exit      *)
(* path, abnormal exits included: a thread that is not inside a call does  *)
(* not hold the mutex.                                                     *)
(***************************************************************************)
C8_ReleasedOnEveryExit ==
  \A t \in Threads : pc[t] = "idle" => mtx.owner # t

(***************************************************************************)
(* C9.  getNumNodes() returns the number of addOperation calls made since  *)
(* the last clear(), whatever vertex ids addDependency was given.          *)
(***************************************************************************)
C9_NumNodesIsCallCount ==
  ret.op = "getNumNodes" => ret.val = Len(calls)

(***************************************************************************)
(* C10.  Vertex ids are dense and assigned in insertion order from 0: the  *)
(* k-th addOperation call since construction or the last clear() returns   *)
(* k - 1, the node record of vertex v carries id v, and the existing ids   *)
(* are exactly 0 .. getNumNodes() - 1.                                     *)
(***************************************************************************)
C10_DenseIds ==
  /\ ret.op = "addOperation" =>
       /\ ret.val = Len(calls) - 1
       /\ dag_[ret.val + 1].properties = [op |-> calls[Len(calls)], id |-> ret.val]
  /\ ret.op = "getNodeProperties" =>
       \E v \in Vertices : ret.val = dag_[v + 1].properties /\ ret.val.id = v
  /\ ret.op = "getNumNodes" =>
       {dag_[k].properties.id : k \in 1..Len(dag_)} = 0..(ret.val - 1)
  /\ \A v \in Vertices : dag_[v + 1].properties.id = v

C10_Witness ==
  /\ ret.op = "addOperation"
  /\ ret.val = 1
  /\ Len(calls) = 2

RECURSIVE SumDegrees(_)
SumDegrees(S) ==
  IF S = {} THEN 0
  ELSE LET v == CHOOSE x \in S : TRUE
       IN Len(adjacent_vertices(v, dag_)) + SumDegrees(S \ {v})

(***************************************************************************)
(* C11.  For every vertex v getNodeDegree(v) is the length of              *)
(* getNeighborList(v), the out-edges of v, and the degrees of all vertices *)
(* sum up to getNumDependencies().                                         *)
(***************************************************************************)
C11_DegreeIsListLength ==
  /\ (ret.op = "getNodeDegree" /\ ret.arg \in Vertices) =>
       ret.val = Len(adjacent_vertices(ret.arg, dag_))
  /\ (ret.op = "getNeighborList" /\ ret.arg \in Vertices) =>
       ret.val = adjacent_vertices(ret.arg, dag_)
  /\ ret.op = "getNumDependencies" => ret.val = SumDegrees(Vertices)

C11_Witness ==
  /\ ret.op = "getNodeDegree"
  /\ ret.arg \in Vertices
  /\ ret.val = 2

(***************************************************************************)
(* C12.  clear() resets the graph and the ExecState: a stream inserted,    *)
(* cleared and inserted again gives the vertex ids and the edges it gave   *)
(* the first time, which are those of a fresh graph.                       *)
(***************************************************************************)
C12_ClearResets ==
  /\ (AllIdle /\ prev.recorded /\ calls = prev.calls) => dag_ = prev.dag
  /\ AllIdle => dag_ = SeqRun(calls).g
  /\ ret.op = "addOperation" => ret.val = Len(calls) - 1
  /\ ret.op = "clear" => (dag_ = <<>> /\ exec_state_ = SeqRun(<<>>).es)

C12_Witness ==
  /\ AllIdle
  /\ prev.recorded
  /\ calls = prev.calls
  /\ num_edges(prev.dag) >= 1

(***************************************************************************)
(* C13.  A call given a vertex id >= getNumNodes() fails and leaves the    *)
(* graph unchanged: addDependency with such an id adds no vertex and no    *)
(* edge.                                                                   *)
(***************************************************************************)
C13_OutOfRangeFails ==
  [][\A t \in Threads :
       ( /\ pc[t] = "ad_add_edge"
         /\ max(loc[t].dependent, loc[t].dependee) >= num_vertices(dag_) )
       => dag_' = dag_]_vars

(***************************************************************************)
(* Vocabulary of the planner's properties                                  *)
(***************************************************************************)
Returned == {k \in 1..Len(runs) : runs[k].status = "returned"}

\* A triple can be applied to a network: two distinct non-zero factors
\* that are present.
Applicable(net, t) ==
  /\ t.left_id \in DOMAIN net /\ t.right_id \in DOMAIN net
  /\ t.left_id # t.right_id /\ t.left_id # 0 /\ t.right_id # 0

\* The network after a triple: both factors replaced by the result.
Applied(net, t) ==
  LET ids == ((DOMAIN net) \ {t.left_id, t.right_id}) \cup {t.result_id}
  IN [id \in ids |-> IF id = t.result_id
                       THEN IF t.result_id = 0 THEN {}
                            ELSE net[t.left_id] \cup net[t.right_id]
                       ELSE net[id]]

\* Every triple of a sequence can be applied in turn.
RECURSIVE ReplayValid(_, _)
ReplayValid(net, seq) ==
  \/ seq = <<>>
  \/ /\ Applicable(net, Head(seq))
     /\ ReplayValid(Applied(net, Head(seq)), Tail(seq))

\* The network state before each triple of a valid sequence.
RECURSIVE Replay(_, _)
Replay(net, seq) ==
  IF seq = <<>> THEN <<>>
  ELSE <<net>> \o Replay(Applied(net, Head(seq)), Tail(seq))

RECURSIVE SumSeq(_)
SumSeq(q) == IF q = <<>> THEN 0 ELSE Head(q) + SumSeq(Tail(q))

ReplayCost(seq) ==
  LET st == Replay(InputNetwork(network.n), seq)
  IN SumSeq([k \in 1..Len(seq) |->
               getTensorContractionCost(st[k][seq[k].left_id],
                                        st[k][seq[k].right_id])])

(***************************************************************************)
(* C14.  For n >= 2 factors and W >= 1 the planner returns exactly n - 1   *)
(* triples, the last with result_id 0, the earlier ones with the non-zero  *)
(* id the generator returned for their pass; for n = 2 the result is the   *)
(* single triple {0, i, j} of the two input factors.                       *)
(***************************************************************************)
C14_SequenceShape ==
  \A k \in Returned :
    network.n >= 2 =>
      LET seq == runs[k].contr_seq
      IN /\ Len(seq) = network.n - 1
         /\ seq[Len(seq)].result_id = 0
         /\ \A p \in 1..(Len(seq) - 1) :
              /\ seq[p].result_id =
                   GeneratorValue(intermediate_num_generator.kind, p - 1)
              /\ seq[p].result_id # 0
         /\ network.n = 2 =>
              seq = <<[result_id |-> 0, left_id |-> 1, right_id |-> 2]>>

C14_Witness ==
  /\ network.n = 4
  /\ Len(runs) = 2
  /\ runs[1].num_walkers = 2
  /\ runs[1].status = "returned"

(***************************************************************************)
(* C15.  Replayed from the input network, every triple of the returned     *)
(* sequence contracts two distinct non-zero factors present at that step,  *)
(* no factor is consumed twice, and with a generator of distinct values    *)
(* that are no input ids the non-zero result ids are pairwise distinct.    *)
(***************************************************************************)
C15_ReplayValid ==
  \A k \in Returned :
    network.n >= 2 =>
      LET seq == runs[k].contr_seq
      IN /\ ReplayValid(InputNetwork(network.n), seq)
         /\ \A p, q \in 1..Len(seq) :
              /\ seq[p].left_id # seq[q].right_id
              /\ p # q => /\ seq[p].left_id # seq[q].left_id
                          /\ seq[p].right_id # seq[q].right_id
         /\ intermediate_num_generator.kind = "counter" =>
              \A p, q \in 1..Len(seq) :
                (p # q /\ seq[p].result_id # 0) =>
                  seq[p].result_id # seq[q].result_id

C15_Witness ==
  /\ network.n = 4
  /\ intermediate_num_generator.kind = "counter"
  /\ \E k \in Returned :
       \E p \in 1..Len(runs[k].contr_seq) :
         runs[k].contr_seq[p].left_id >= FirstIntermediateId

(***************************************************************************)
(* C16.  For a network of fewer than 2 factors the planner returns cost    *)
(* 0.0 and an empty sequence, runs no pass and does not invoke the id      *)
(* generator.                                                              *)
(***************************************************************************)
C16_DegenerateInput ==
  network.n < 2 =>
    /\ ppc \in {"idle", "return"}
    /\ intermediate_num_generator.calls = 0
    /\ \A k \in 1..Len(runs) :
         /\ runs[k].status = "returned"
         /\ runs[k].contr_seq = <<>>
         /\ runs[k].flops = 0

(***************************************************************************)
(* C17.  Monotonicity in the beam width: on the same network the cost      *)
(* returned with num_walkers = W is at most the cost returned with         *)
(* num_walkers = 1.                                                        *)
(***************************************************************************)
C17_MonotoneInWalkers ==
  (network.n >= 2 /\ Returned = {1, 2}) =>
    /\ runs[2].num_walkers = 1 => runs[1].flops <= runs[2].flops
    /\ runs[1].num_walkers = 1 => runs[2].flops <= runs[1].flops

\* Costs in ascending order.
RECURSIVE SortCosts(_)
SortCosts(q) ==
  IF q = <<>> THEN <<>>
  ELSE LET k == CHOOSE a \in 1..Len(q) : \A b \in 1..Len(q) : q[a] <= q[b]
       IN <<q[k]>> \o SortCosts(SubSeq(q, 1, k - 1) \o SubSeq(q, k + 1, Len(q)))

CostsOf(paths) == [k \in 1..Len(paths) |-> paths[k].cost]

\* The cumulative costs of all children a pass generates from its beam.
ChildCosts ==
  LET cs == Candidates(inputPaths)
  IN [k \in 1..Len(cs) |->
        getTensorContractionCost(cs[k].parent.net[cs[k].i],
                                 cs[k].parent.net[cs[k].j]) + cs[k].parent.cost]

Lowest(q, w) == SubSeq(SortCosts(q), 1, IF Len(q) < w THEN Len(q) ELSE w)

(***************************************************************************)
(* C18.  The beam holds at most W paths at every pass boundary, the queue  *)
(* at most W entries after every insertion, and the paths that survive a   *)
(* pass are the W lowest-cumulative-cost children generated in it (as a    *)
(* multiset of costs; all of them if fewer than W).                        *)
(***************************************************************************)
C18_BeamKeepsLowest ==
  /\ Len(priq) <= num_walkers_
  /\ ppc = "loop" => Len(inputPaths) <= num_walkers_
  /\ (ppc = "candidates" /\ cands = <<>>) =>
       SortCosts(CostsOf(priq)) = Lowest(ChildCosts, num_walkers_)

C18_Witness ==
  /\ ppc = "candidates"
  /\ cands = <<>>
  /\ pass = 1
  /\ Len(ChildCosts) > num_walkers_
  /\ num_walkers_ = 2
  /\ \E a, b \in 1..Len(ChildCosts) : ChildCosts[a] # ChildCosts[b]

(***************************************************************************)
(* C19.  The planner returns the minimum-cumulative-cost candidate of the  *)
(* queue at the end of the final pass, and the returned cost is the sum of *)
(* the pairwise costs of the returned triples, each evaluated in the       *)
(* network state the preceding triples lead to.                            *)
(***************************************************************************)
C19_ReturnsCheapest ==
  /\ [](\A k \in Returned :
          network.n >= 2 => runs[k].flops = ReplayCost(runs[k].contr_seq))
  /\ [][(ppc = "candidates" /\ cands = <<>> /\ pass = numContractions - 1
           /\ priq # <<>>)
        => /\ \A k \in 1..Len(priq) : flops' <= priq[k].cost
           /\ \E k \in 1..Len(priq) :
                priq[k].cost = flops' /\ priq[k].seq = contr_seq']_vars

C19_Witness ==
  /\ network.n = 4
  /\ Len(runs) >= 1
  /\ runs[1].num_walkers = 2
  /\ runs[1].status = "returned"
  /\ runs[1].flops > 0

C21_InputUnchanged ==
  /\ [](\A k \in 1..Len(inputPaths) :
          (ppc = "loop" /\ pass = 0) =>
            inputPaths[k].net = InputNetwork(network.n))
  /\ [][/\ network' = network
        /\ (ppc # "idle" \/ ppc' # "idle") => num_walkers_' = num_walkers_]_vars

C21_Witness ==
  /\ Len(runs) = 1
  /\ runs[1].status = "returned"
  /\ runs[1].num_walkers = 2
  /\ network.n = 4
  /\ Len(runs[1].contr_seq) = 3
  /\ ppc = "idle"

(***************************************************************************)
(* Vocabulary of the shortest-path properties                              *)
(***************************************************************************)
Reachable(s, i) == i \in ReachableIn({s}, num_vertices(dag_))

\* The minimum number of edges on a directed path from s to a reachable i.
MinEdges(s, i) ==
  CHOOSE k \in 0..num_vertices(dag_) :
    /\ i \in ReachableIn({s}, k)
    /\ \A j \in 0..(k - 1) : i \notin ReachableIn({s}, j)

\* computeShortestPath has returned its two vectors: the start vertex and
\* the targets of all edges exist.
PathReturned ==
  /\ ret.op = "computeShortestPath"
  /\ ret.arg \in Vertices
  /\ \A a \in Vertices :
       \A k \in 1..Len(adjacent_vertices(a, dag_)) :
         adjacent_vertices(a, dag_)[k] \in Vertices

\* The diamond 0->1, 0->2, 1->3, 2->3, inserted in this order.
IsDiamond ==
  /\ num_vertices(dag_) = 4
  /\ adjacent_vertices(0, dag_) = <<1, 2>>
  /\ adjacent_vertices(1, dag_) = <<3>>
  /\ adjacent_vertices(2, dag_) = <<3>>
  /\ adjacent_vertices(3, dag_) = <<>>

(***************************************************************************)
(* C22.  computeShortestPath(start, distances, predecessors) with empty    *)
(* output vectors writes one entry per vertex in vertex-id order,          *)
(* distances[i] the minimum total edge weight of a path from start to i    *)
(* and predecessors[i] the previous vertex on such a path (i itself for    *)
(* the start and for unreachable vertices); on the diamond from start 0 it *)
(* yields d = [0, 1, 5, 2] and p[3] = 1.                                   *)
(***************************************************************************)
C22_ShortestPaths ==
  PathReturned =>
    LET d == ret.val.distances
        p == ret.val.paths
        s == ret.arg
    IN /\ Len(d) = num_vertices(dag_)
       /\ Len(p) = num_vertices(dag_)
       /\ \A i \in Vertices :
            IF Reachable(s, i)
              THEN /\ d[i + 1] = DefaultWeight * MinEdges(s, i)
                   /\ i = s => p[i + 1] = s
                   /\ i # s => /\ edge(p[i + 1], i, dag_)
                               /\ Reachable(s, p[i + 1])
                               /\ d[p[i + 1] + 1] + DefaultWeight = d[i + 1]
              ELSE p[i + 1] = i
       /\ (IsDiamond /\ s = 0) => (d = <<0, 1, 5, 2>> /\ p[4] = 1)

(***************************************************************************)
(* C23.  An edge inserted by addDependency or by the hazard rules of       *)
(* addOperation has weight 1.0: computeShortestPath reports for every      *)
(* vertex reachable from start the minimum number of edges on a directed   *)
(* path from start to it.                                                  *)
(***************************************************************************)
C23_UnitWeights ==
  PathReturned =>
    \A i \in Vertices :
      Reachable(ret.arg, i) => ret.val.distances[i + 1] = MinEdges(ret.arg, i)

(***************************************************************************)
(* C24.  On an empty graph getNumNodes() and getNumDependencies() return 0 *)
(* and computeShortestPath(0, distances, predecessors) is rejected or      *)
(* returns with both vectors empty, no per-vertex entry read or written:   *)
(* the call neither faults nor returns indeterminate vectors, the two      *)
(* outcomes of an access beyond the (empty) per-vertex vectors.            *)
(***************************************************************************)
C24_EmptyGraph ==
  num_vertices(dag_) = 0 =>
    /\ ret.op = "getNumNodes" => ret.val = 0
    /\ ret.op = "getNumDependencies" => ret.val = 0
    /\ (ret.op = "computeShortestPath" /\ ret.arg = 0) =>
         ret.val \notin {"SIGSEGV", Indeterminate}

(***************************************************************************)
(* C25.  A vertex id is never reused within the lifetime of a graph        *)
(* object: an addOperation after a clear() does not return an id that an   *)
(* addOperation before the clear() returned (the ids of the vertices the   *)
(* clear() dropped).                                                       *)
(***************************************************************************)
C25_NoReuse ==
  (prev.recorded /\ ret.op = "addOperation") =>
    ret.val \notin 0..(num_vertices(prev.dag) - 1)

(***************************************************************************)
(* C26.  Within addOperation(op) with output tensor T and new vertex v the *)
(* edges from v to the prior write-epoch node or to all prior read-epoch   *)
(* nodes of T are in the graph when registerTensorWrite(T, v) replaces     *)
(* those records, the write of T is registered before any input operand is *)
(* examined, and when the call returns T has v as its only writer (or v as *)
(* its sole reader if op also reads T).                                    *)
(***************************************************************************)
C26_EdgesBeforeRegistration ==
  [][\A t \in Threads :
       LET T == loc[t].op[1]
           v == loc[t].vid
       IN /\ (pc[t] = "ao_out_deps" /\ pc'[t] = "ao_input") =>
               LET r == getTensorEpochNodes(exec_state_, T)
               IN /\ \A k \in 1..Len(r.nodes) : edge(v, r.nodes[k], dag_)
                  /\ exec_state_'[T] = [writer |-> v, readers |-> <<>>]
          /\ (pc[t] = "ao_input" /\ loc[t].i = 2) =>
               exec_state_[T] = [writer |-> v, readers |-> <<>>]
          /\ (pc[t] = "ao_input" /\ pc'[t] = "idle") =>
               exec_state_'[T] = IF Reads(loc[t].op, T)
                                   THEN [writer |-> NoWriter, readers |-> <<v>>]
                                   ELSE [writer |-> v, readers |-> <<>>]]_vars

C26_Witness ==
  \E v \in Vertices :
    /\ Completed(v)
    /\ AllIdle
    /\ Len(adjacent_vertices(v, dag_)) >= 2
    /\ ~Reads(OpOf(v), OpOf(v)[1])
    /\ exec_state_[OpOf(v)[1]] = [writer |-> v, readers |-> <<>>]

(***************************************************************************)
(* C27.  The graph is monotone between clears: across every step that is   *)
(* not clear() no vertex is removed or renumbered and no edge is removed,  *)
(* and the query operations (dependencyExists, getNodeDegree, getNumNodes, *)
(* getNumDependencies, getNeighborList, computeShortestPath, printIt)      *)
(* leave the graph and the ExecState unchanged.                            *)
(***************************************************************************)
QueryLabels ==
  {"de_body", "gnd_call", "gnd_size", "gnn_body", "gnm_body", "gnl_body",
   "csp_body", "pi_loop", "pi_print"}

IsPrefix(a, b) == Len(a) <= Len(b) /\ SubSeq(b, 1, Len(a)) = a

C27_MonotoneBetweenClears ==
  [][/\ (\A t \in Threads : ~(pc[t] = "cl_body" /\ pc'[t] = "idle")) =>
          /\ num_vertices(dag_) <= num_vertices(dag_')
          /\ \A v \in Vertices :
               /\ dag_'[v + 1].properties = dag_[v + 1].properties
               /\ IsPrefix(adjacent_vertices(v, dag_), adjacent_vertices(v, dag_'))
     /\ \A t \in Threads :
          (pc[t] \in QueryLabels \/ pc'[t] \in QueryLabels) =>
            /\ dag_' = dag_
            /\ exec_state_' = exec_state_]_vars

C27_Witness ==
  /\ num_vertices(dag_) = 2
  /\ num_edges(dag_) = 2
  /\ ret.op = "printIt"
  /\ AllIdle

(***************************************************************************)
(* C28.  The planner invokes the id generator exactly once per pass, at    *)
(* the start of the pass and before any candidate is formed: n - 1         *)
(* invocations for n >= 2 factors, the value drawn in the final pass in no *)
(* triple; all candidates of pass p use the p-th generated value, and the  *)
(* k-th returned triple (k < n - 1) has the k-th generated value as its    *)
(* result_id.                                                              *)
(***************************************************************************)
Drawn(p) == GeneratorValue(intermediate_num_generator.kind, p)

C28_OneIdPerPass ==
  network.n >= 2 =>
    /\ ppc = "loop" => intermediate_num_generator.calls = pass
    /\ ppc = "candidates" =>
         /\ intermediate_num_generator.calls = pass + 1
         /\ intermediate_id = Drawn(pass)
         /\ \A k \in 1..Len(priq) :
              /\ Len(priq[k].seq) = pass + 1
              /\ priq[k].seq[pass + 1].result_id =
                   IF pass = numContractions - 1 THEN 0 ELSE Drawn(pass)
              /\ Drawn(pass) \in DOMAIN priq[k].net
    /\ \A r \in Returned :
         /\ runs[r].generated = network.n - 1
         /\ \A k \in 1..Len(runs[r].contr_seq) :
              /\ k < network.n - 1 => runs[r].contr_seq[k].result_id = Drawn(k - 1)
              /\ runs[r].contr_seq[k].result_id # Drawn(network.n - 2)
              /\ runs[r].contr_seq[k].left_id # Drawn(network.n - 2)
              /\ runs[r].contr_seq[k].right_id # Drawn(network.n - 2)

C28_Witness ==
  /\ network.n = 4
  /\ intermediate_num_generator.kind = "counter"
  /\ \E r \in Returned :
       /\ runs[r].generated = 3
       /\ runs[r].contr_seq[2].result_id = FirstIntermediateId + 1

(***************************************************************************)
(* C29.  addDependency is idempotent in effect: for existing vertices a    *)
(* and b, a further addDependency(a, b) leaves dependencyExists(x, y)      *)
(* unchanged for every pair (x, y) and leaves the set of distinct          *)
(* dependees of every vertex unchanged.                                    *)
(***************************************************************************)
Dependees(v, g) == {adjacent_vertices(v, g)[k] : k \in 1..Len(adjacent_vertices(v, g))}

C29_AddDependencyIdempotent ==
  [][\A t \in Threads :
       ( /\ pc[t] = "ad_add_edge"
         /\ pc'[t] # "ad_add_edge"
         /\ loc[t].dependent \in Vertices
         /\ loc[t].dependee \in Vertices
         /\ edge(loc[t].dependent, loc[t].dependee, dag_) ) =>
           /\ num_vertices(dag_') = num_vertices(dag_)
           /\ \A x, y \in Vertices : edge(x, y, dag_') = edge(x, y, dag_)
           /\ \A x \in Vertices : Dependees(x, dag_') = Dependees(x, dag_)]_vars

C29_Witness ==
  /\ ret.op = "addDependency"
  /\ \E a, b \in Vertices :
       /\ a # b
       /\ adjacent_vertices(a, dag_) = <<b, b>>

(***************************************************************************)
(* C30.  For every beam width resetNumWalkers accepts, 0 included, and     *)
(* every network of n >= 2 factors the beam is non-empty at the start of   *)
(* every pass and the priority queue is non-empty when the final pass      *)
(* reads its top, so that the call returns a sequence of length n - 1.     *)
(***************************************************************************)
C30_QueueNonEmpty ==
  network.n >= 2 =>
    /\ (ppc = "loop" /\ pass < numContractions) => inputPaths # <<>>
    /\ (ppc = "candidates" /\ cands = <<>> /\ pass = numContractions - 1) =>
         priq # <<>>
    /\ ppc # "crashed"
    /\ \A r \in Returned : runs[r].contr_seq # Indeterminate

(***************************************************************************)
(* Vocabulary of the framework properties                                  *)
(***************************************************************************)
\* The framework is up after a sequence of calls: the last initialize() or
\* finalize() of the sequence is an initialize().
RECURSIVE Effective(_)
Effective(cs) ==
  IF cs = <<>> THEN FALSE
  ELSE IF cs[Len(cs)] = "initialize" THEN TRUE
  ELSE IF cs[Len(cs)] = "finalize" THEN FALSE
  ELSE Effective(SubSeq(cs, 1, Len(cs) - 1))

Calling(name) ==
  main.pc = "idle" /\ main'.calls = Append(main.calls, name)

(***************************************************************************)
(* C31.  For any sequence of initialize() and finalize() calls every call  *)
(* completes, isInitialized() is true exactly from an effective            *)
(* initialize until the next finalize, initialize() while initialized is a *)
(* no-op (the registry is not initialised again, the numerical server not  *)
(* replaced), finalize() while not initialized is a no-op, and at most one *)
(* numerical server exists at any time, existing exactly when              *)
(* isInitialized() is true.                                                *)
(***************************************************************************)
C31_InitFinalize ==
  /\ [](main.pc # "aborted")
  /\ [](Cardinality(exatn.servers) <= 1)
  /\ [](main.pc = "idle" =>
          /\ exatn.exatnFrameworkInitialized = Effective(main.calls)
          /\ (main.calls # <<>> /\ main.calls[Len(main.calls)] = "isInitialized")
               => main.ret = Effective(main.calls)
          /\ exatn.numericalServer # nullServer <=> exatn.exatnFrameworkInitialized
          /\ exatn.servers = IF exatn.exatnFrameworkInitialized
                               THEN {exatn.numericalServer} ELSE {})
  /\ [][(Calling("initialize") /\ exatn.exatnFrameworkInitialized) =>
          (exatn' = exatn /\ main'.pc = "idle")]_vars
  /\ [][(Calling("finalize") /\ ~exatn.exatnFrameworkInitialized) =>
          (exatn' = exatn /\ main'.pc = "idle")]_vars

====
